---- MODULE Spec2Model ----
(***************************************************************************)
(* Model of the chat widget of src/chatbot.js (second definition of        *)
(* ChatbotWidget, src/unnamed/part_000 lines 281-720) together with the    *)
(* storage helpers of src/utils.js (src/unnamed/part_001) and the parts of *)
(* src/renderer.js (lines 410-1023) that style and render a message and   *)
(* handle the clicks on its buttons, stars and form.                       *)
(*                                                                         *)
(* One browser profile.  The page can be reloaded; the localStorage of the *)
(* profile survives a reload, the widget instance and its DOM do not.      *)
(* JavaScript runs handlers to completion, so every handler (up to its     *)
(* next await) is one action.                                              *)
(*                                                                         *)
(* Spec follows the message history of one page over reloads and storage   *)
(* failures; ConfigSpec the configuration layers, the auto-refresh         *)
(* scheduler and the chrome of one page, next to a send; RenderSpec the    *)
(* rendering of an answer and the clicks on its elements; SharedSpec two   *)
(* pages of the profile appending to the history of one session.           *)
(***************************************************************************)
EXTENDS Integers, Sequences, FiniteSets, TLC

\* ------------------------------------------------------------------ bounds
MaxCalls == 2      \* sendMessage invocations in one behaviour
MaxReloads == 1    \* page reloads in one behaviour
MaxRespLen == 2    \* length of a backend response list
MaxFaults == 1     \* handlers that find localStorage failing in one behaviour
MaxTimers == 2     \* setInterval calls in one behaviour
MaxInFlight == 2   \* requests to the config endpoint in flight at a time
MaxPeerLen == 2    \* length of the history of the second page
MaxScale == 3      \* scale of a rating
MaxClickCalls == 3 \* sendMessage invocations in one behaviour of RenderSpec

\* ------------------------------------------------------------- JS values
\* Strings are sequences of one-character strings; Null and Absent are
\* sentinels of the same shape so that every comparison is well typed.
Null == <<"null">>
Absent == <<"absent">>
EmptyStr == <<>>

\* JS truthiness of a string-or-null value: null, undefined and '' are falsy.
Truthy(v) == v # Null /\ v # Absent /\ v # EmptyStr

IsSpace(c) == c = " "

RECURSIVE TrimStart(_)
TrimStart(s) == IF s # <<>> /\ IsSpace(Head(s)) THEN TrimStart(Tail(s)) ELSE s

RECURSIVE TrimEnd(_)
TrimEnd(s) ==
    IF s # <<>> /\ IsSpace(s[Len(s)]) THEN TrimEnd(SubSeq(s, 1, Len(s) - 1)) ELSE s

TrimMut(s) == s

\* String.prototype.trim
Trim(s) == TrimEnd(TrimStart(s))

\* Values the user can leave in the input field, and the arguments the
\* callers pass to sendMessage(text, payload): none from the send button and
\* the Enter key, a title and a payload from a button, a rating or a form
\* (the title of a button can be missing).
InputValues == { EmptyStr, <<" ">>, <<" ", "a", " ">> }
CallArgs == { <<Null, Null>>, <<Null, <<"p">>>>, <<<<"a">>, <<"p">>>> }

\* The two literal texts of sendMessage's synthetic bot messages.
NoResponseText == <<"Sorry, I didn't get a response.">>
TroubleText == <<"I'm having trouble connecting. Please try again later.">>

\* --------------------------------------------------------------- messages
\* A message object; a field the object does not carry is "absent"/Absent.
\*   sender : "user", "bot" or "absent"
\*   text   : a string or Absent
\*   video  : "absent", "mp4" (a direct file url) or "ytNoV" (a youtube.com/watch
\*            url without a v= parameter)
Msg(sender, text, video) == [sender |-> sender, text |-> text, video |-> video]

UserMessage(messageText) == Msg("user", messageText, "absent")

\* Objects the backend can return in its list.
RespObjects ==
    { Msg("absent", <<"h">>, "absent"),
      Msg("user", <<"h">>, "absent"),
      Msg("absent", <<"h">>, "ytNoV") }

\* { sender: 'bot', ...response }: the spread of the response comes after the
\* literal sender, so a sender carried by the response wins.
BotMessage(response) ==
    Msg(IF response.sender # "absent" THEN response.sender ELSE "bot",
        response.text, response.video)

NoResponseMessage == Msg("bot", NoResponseText, "absent")
TroubleMessage == Msg("bot", TroubleText, "absent")

\* createVideo: a url containing "youtube.com/watch" takes the branch
\* url.split("v=")[1].split("&"), which throws a TypeError when the url has
\* no "v=".
CreateVideoThrows(video) == video = "ytNoV"

\* Whether building the DOM node of a message throws (displayMessage up to
\* the appendChild).
RenderThrows(message) == CreateVideoThrows(message.video)

\* The node displayMessage appends to the message container.
RenderNode(message) ==
    [cls |-> IF message.sender = "user" THEN "user" ELSE "bot",
     text |-> message.text,
     children |-> (IF Truthy(message.text) THEN <<"text">> ELSE <<>>)
                  \o (IF message.video # "absent" THEN <<"video">> ELSE <<>>)]

\* ------------------------------------------------------------------- JSON
\* JSON.stringify / JSON.parse of the two kinds of value the widget stores:
\* a session id string and an array of messages.  An encoded message is the
\* tuple of its present members; a stored item is a 1-tuple holding the
\* document, and NoItem is what getItem returns for a missing key.
NoItem == <<>>

EncodeMessage(m) == <<m.sender, m.text, m.video>>
DecodeMessage(t) == Msg(t[1], t[2], t[3])

JSONStringifyMessages(msgs) == << [i \in 1..Len(msgs) |-> EncodeMessage(msgs[i])] >>
JSONParseMessages(item) == [i \in 1..Len(item[1]) |-> DecodeMessage(item[1][i])]

JSONStringifyId(id) == << id >>
JSONParseId(item) == item[1]

\* ---------------------------------------------------------- configuration
\* A config object: its plain top-level members (top), and the two nested
\* sections mergeConfigs treats apart.  Member values are strings; "absent"
\* stands for a member the object does not carry, "null" for JSON null.
DefaultKeys ==
    {"botUrl", "themeColor", "position", "botName", "inputPlaceholder", "sendButtonText"}
PlainKeys == DefaultKeys \cup {"configApiUrl", "autoRefresh", "autoRefreshInterval"}
StyleKeys == {"themeColor", "messages", "components"}
FeatureKeys == {"a", "b"}

\* JS truthiness of a member value.
CfgTruthy(v) == v \notin {"absent", "null", "", "false"}

\* A nested section: has tells an object from undefined/null, kv its members.
NoObj(keys) == [has |-> FALSE, kv |-> [k \in keys |-> "absent"]]
EmptyObj(keys) == [has |-> TRUE, kv |-> [k \in keys |-> "absent"]]

NoTop == [k \in PlainKeys |-> "absent"]
NoConfig == [top |-> NoTop, style |-> NoObj(StyleKeys), features |-> NoObj(FeatureKeys)]

\* The literals of initConfig.
Defaults ==
    [k \in DefaultKeys |->
        CASE k = "botUrl" -> "http://0.0.0.0:8000/chat"
          [] k = "themeColor" -> "#020c15ff"
          [] k = "position" -> "bottom-right"
          [] k = "botName" -> "Chatbot"
          [] k = "inputPlaceholder" -> "Type your message..."
          [] k = "sendButtonText" -> "Send"]

\* startAutoRefresh(interval = 300000) and `autoRefreshInterval || 300000`.
DefaultInterval == "300000"

\* The chatbot-config attribute of the script tag: none; a config endpoint
\* with auto refresh, an empty bot name and a theme colour; a config endpoint
\* with an interval and a feature flag, without auto refresh.
ScriptConfigs ==
    { NoConfig,
      [top |-> [NoTop EXCEPT !["configApiUrl"] = "u", !["autoRefresh"] = "true",
                             !["botName"] = ""],
       style |-> [EmptyObj(StyleKeys) EXCEPT !.kv["themeColor"] = "c1"],
       features |-> NoObj(FeatureKeys)],
      [top |-> [NoTop EXCEPT !["configApiUrl"] = "u", !["autoRefreshInterval"] = "1000"],
       style |-> NoObj(StyleKeys),
       features |-> [EmptyObj(FeatureKeys) EXCEPT !.kv["a"] = "on"]] }

\* The JSON objects the config endpoint can answer with.
RemoteConfigs ==
    { [top |-> [NoTop EXCEPT !["botName"] = "B"],
       style |-> [EmptyObj(StyleKeys) EXCEPT !.kv["themeColor"] = "c2"],
       features |-> NoObj(FeatureKeys)],
      [top |-> [NoTop EXCEPT !["botName"] = "null", !["autoRefresh"] = "true"],
       style |-> [EmptyObj(StyleKeys) EXCEPT !.kv["messages"] = "m2"],
       features |-> [EmptyObj(FeatureKeys) EXCEPT !.kv["b"] = "x"]],
      [top |-> [NoTop EXCEPT !["sendButtonText"] = "Go"],
       style |-> NoObj(StyleKeys),
       features |-> [EmptyObj(FeatureKeys) EXCEPT !.kv["a"] = "off"]] }

\* initConfig: { ...scriptConfig, ...apiConfig } with apiConfig = {}, then
\* key = key || default for the six keys.
InitConfig(scriptConfig) ==
    [scriptConfig EXCEPT
        !.top = [k \in PlainKeys |->
                    IF k \in DefaultKeys /\ ~CfgTruthy(@[k]) THEN Defaults[k] ELSE @[k]]]

SpreadMut(base, over) ==
    [has |-> TRUE,
     kv |-> [k \in DOMAIN base.kv |->
                IF base.kv[k] # "absent" THEN base.kv[k] ELSE over.kv[k]]]

\* { ...(base || {}), ...(over || {}) }
Spread(base, over) ==
    [has |-> TRUE,
     kv |-> [k \in DOMAIN base.kv |->
                IF over.kv[k] # "absent" THEN over.kv[k] ELSE base.kv[k]]]

\* A merge that applies the overlay's botName by toggling it.
MergeConfigsMut(cfg, newConfig) ==
    [top |-> [k \in PlainKeys |->
                 IF newConfig.top[k] = "absent" THEN cfg.top[k]
                 ELSE IF k = "botName" /\ cfg.top[k] = newConfig.top[k] THEN "absent"
                 ELSE newConfig.top[k]],
     style |-> Spread(cfg.style, newConfig.style),
     features |-> Spread(cfg.features, newConfig.features)]

\* mergeConfigs(newConfig): the object assigned to this.config.
MergeConfigs(cfg, newConfig) ==
    [top |-> [k \in PlainKeys |->
                 IF newConfig.top[k] # "absent" THEN newConfig.top[k] ELSE cfg.top[k]],
     style |-> Spread(cfg.style, newConfig.style),
     features |-> Spread(cfg.features, newConfig.features)]

\* What a request to the config endpoint can settle with.
\*   "network" : fetch rejects
\*   "notjson" : response.json() rejects
\*   "null"    : the body is JSON null: mergeConfigs throws reading newConfig.style
\*   "json"    : a 2xx answer with a JSON object
\*   "status"  : a non-2xx answer with a JSON object as its body
ConfigOutcomes ==
    { [kind |-> k, body |-> NoConfig] : k \in {"network", "notjson", "null"} }
    \cup { [kind |-> k, body |-> o] : k \in {"json", "status"}, o \in RemoteConfigs }

MergesMut(outcome) == outcome.kind # "network"

\* The try block of loadConfig and refreshConfig reaches mergeConfigs and
\* mergeConfigs returns: neither checks response.ok.
Merges(outcome) == outcome.kind \in {"json", "status"}

OnConfigResponseMut(cfg, outcome) ==
    IF Merges(outcome)
    THEN [MergeConfigs(cfg, outcome.body) EXCEPT !.style = cfg.style]
    ELSE cfg

\* this.config after the try/catch of loadConfig or refreshConfig.
OnConfigResponse(cfg, outcome) ==
    IF Merges(outcome) THEN MergeConfigs(cfg, outcome.body) ELSE cfg

\* The header title, the placeholder and the send button text.
NoChrome == [title |-> "absent", placeholder |-> "absent", button |-> "absent"]
ChromeOf(cfg) ==
    [title |-> cfg.top["botName"], placeholder |-> cfg.top["inputPlaceholder"],
     button |-> cfg.top["sendButtonText"]]

\* applyDynamicStyles: the --chatbot-theme-color property of the root element.
ApplyDynamicStyles(root, cfg) ==
    IF cfg.style.has /\ CfgTruthy(cfg.style.kv["themeColor"])
    THEN cfg.style.kv["themeColor"] ELSE root

UpdateUIElementsMut(els, cfg) ==
    IF els.containers = <<>> THEN els
    ELSE [chrome |-> ChromeOf(cfg),
          containers |-> [els.containers EXCEPT ![Len(els.containers)] = <<>>]]

\* updateUIElements on this.elements: the chrome of the current UI, if any.
UpdateUIElements(els, cfg) ==
    IF els.containers = <<>> THEN els ELSE [els EXCEPT !.chrome = ChromeOf(cfg)]

\* The scheduler: this.refreshInterval (0 for null) and the intervals the
\* browser has running, each an id and a period.
StopAutoRefreshMut(sch) == [sch EXCEPT !.handle = 0]

\* stopAutoRefresh
StopAutoRefresh(sch) ==
    IF sch.handle # 0
    THEN [handle |-> 0, timers |-> { t \in sch.timers : t.id # sch.handle }]
    ELSE sch

StartAutoRefreshMut(sch, interval, id) ==
    [handle |-> id, timers |-> sch.timers \cup { [id |-> id, interval |-> interval] }]

\* startAutoRefresh(interval); id is what setInterval returns.
StartAutoRefresh(sch, interval, id) ==
    LET stopped == StopAutoRefresh(sch)
    IN  [handle |-> id,
         timers |-> stopped.timers \cup { [id |-> id, interval |-> interval] }]

\* --------------------------------------------------------------- renderer
\* Style objects map a property to its value; "missing" stands for a key the
\* object does not carry, "undefined" and "null" for a key carried with that
\* value.
StyleProps == {"color", "backgroundColor"}
NoStyles == [p \in StyleProps |-> "missing"]

\* obj.key read into a key of an object literal: a missing key reads as
\* undefined, and the literal carries the key.
Member(v) == IF v = "missing" THEN "undefined" ELSE v

\* { ...a, ...b } of two style objects.
SpreadStyles(a, b) == [p \in StyleProps |-> IF b[p] # "missing" THEN b[p] ELSE a[p]]

\* The objects the values of config.style.messages and
\* config.style.components stand for: "m1" carries buttonColor, "m2" other
\* members only; "k1" carries rating.star.color.
MessagesOf(id) ==
    [buttonColor |-> IF id = "m1" THEN "blue" ELSE "missing",
     buttonTextColor |-> "missing"]

ComponentStyles(id, component, elementType) ==
    IF id = "k1" /\ component = "rating" /\ elementType = "star"
    THEN [NoStyles EXCEPT !["color"] = "red"]
    ELSE NoStyles

\* getDefaultStyles, for the pairs the model renders.
GetDefaultStyles(component, elementType, globalStyles) ==
    IF component = "buttons" /\ elementType = "button"
    THEN [NoStyles EXCEPT !["backgroundColor"] = Member(globalStyles.buttonColor),
                          !["color"] = Member(globalStyles.buttonTextColor)]
    ELSE IF component = "rating" /\ elementType = "star"
    THEN [NoStyles EXCEPT !["color"] = Member(globalStyles.buttonColor)]
    ELSE NoStyles

\* The three objects applyStyles spreads, for an element of the pair.
DefaultTier(cfg, component, elementType) ==
    GetDefaultStyles(component, elementType, MessagesOf(cfg.style.kv["messages"]))

ConfigTier(cfg, component, elementType) ==
    ComponentStyles(cfg.style.kv["components"], component, elementType)

\* applyStyles on an element without inline style: the style it ends with,
\* "unset" for a property that was not applied.
ApplyStyles(cfg, component, elementType, messageStyles) ==
    LET styles == SpreadStyles(SpreadStyles(DefaultTier(cfg, component, elementType),
                                            ConfigTier(cfg, component, elementType)),
                               messageStyles)
    IN  [p \in StyleProps |->
            IF styles[p] \in {"missing", "undefined", "null"} THEN "unset" ELSE styles[p]]

\* createRating:
\* applyStyles(star, 'rating', 'star', { color: buttonColor, ...styleOverrides.star }).
StarStyles(cfg, starOverride) ==
    ApplyStyles(cfg, "rating", "star",
        SpreadStyles([NoStyles EXCEPT !["color"] =
                         Member(MessagesOf(cfg.style.kv["messages"]).buttonColor)],
                     starOverride))

\* The shape of a message field or of a variant of a custom payload:
\*   "absent" : the message does not carry it
\*   "ok"     : well formed
\*   "empty"  : carried, and its creator is skipped or returns null (an empty
\*              array, a video or a table without its members, a rating
\*              without scale, a form without submit_payload)
\*   "bad"    : carried, and its creator throws a TypeError (a string where
\*              an array is iterated, a youtube.com/watch url without v=, a
\*              table row that is not an array)
Shapes == {"absent", "ok", "empty", "bad"}
FieldOrder == <<"text", "buttons", "image", "video", "carousel", "custom">>
VariantOrder == <<"locations", "faq_list", "table", "rating", "forms", "video">>
Fields == { FieldOrder[i] : i \in 1..Len(FieldOrder) }
Variants == { VariantOrder[i] : i \in 1..Len(VariantOrder) }

\* message.custom: has tells an object from undefined, v the shapes of its
\* variants, star the value of style.star.color.
NoCustom == [has |-> FALSE, v |-> [k \in Variants |-> "absent"], star |-> "missing"]

\* A message as the backend returns it: the members the history of the model
\* keeps (base) and the shapes of the other fields.
Rich(base, buttons, image, carousel, custom) ==
    [base |-> base, buttons |-> buttons, image |-> image, carousel |-> carousel,
     custom |-> custom]

NoNodes == [threw |-> FALSE, nodes |-> <<>>]

\* A run of `if (field) { node = create(field); if (node) append(node) }`:
\* the nodes appended, up to the first creator that throws.
RECURSIVE RenderEach(_, _, _)
RenderEach(order, shapeOf, acc) ==
    IF order = <<>> \/ acc.threw THEN acc
    ELSE LET f == Head(order)
             next == IF shapeOf[f] = "bad" THEN [acc EXCEPT !.threw = TRUE]
                     ELSE IF shapeOf[f] = "ok" THEN [acc EXCEPT !.nodes = Append(@, f)]
                     ELSE acc
         IN  RenderEach(Tail(order), shapeOf, next)

\* renderCustomPayload: the children of the custom container.
RenderCustomPayload(custom) ==
    IF custom.has THEN RenderEach(VariantOrder, custom.v, NoNodes) ELSE NoNodes

\* The shape of each field as displayMessage meets it.
FieldShapes(m) ==
    LET c == RenderCustomPayload(m.custom)
    IN  [f \in Fields |->
            CASE f = "text" -> IF Truthy(m.base.text) THEN "ok" ELSE "absent"
              [] f = "buttons" -> m.buttons
              [] f = "image" -> m.image
              [] f = "video" -> IF m.base.video = "absent" THEN "absent"
                                ELSE IF CreateVideoThrows(m.base.video) THEN "bad"
                                ELSE "ok"
              [] f = "carousel" -> m.carousel
              [] f = "custom" -> IF ~m.custom.has THEN "absent"
                                 ELSE IF c.threw THEN "bad"
                                 ELSE IF c.nodes = <<>> THEN "empty" ELSE "ok"]

\* displayMessage up to the appendChild: the children of the message element.
RenderFields(m) == RenderEach(FieldOrder, FieldShapes(m), NoNodes)

\* ------------------------------------------------------ interactive elements
\* The interactive elements of a rendered message, as far as their handlers
\* read and write them.
\*   msg          : the message displayMessage was given last
\*   threw        : rendering it threw
\*   tree, custom : the children of its element and of its custom container
\*   star         : the colour of the stars as created ("none": no stars)
\*   btnDisabled  : the buttons of its button container are disabled
\*   btnSent      : sendMessage calls made by its buttons
\*   selectedRating, selected : the variable of createRating and the values
\*                  of the stars that carry the class 'selected'
\*   formDisabled, formSent   : the controls of its form are disabled;
\*                  sendMessage calls made by its submit handler
\*   formValues   : the values of the controls at the last submit attempt
\*   click        : what the last handler was a click on ("none": not a click;
\*                  "blocked": a submit the browser's validation stopped)
\*   at           : the value of the star the last click was on
ButtonSet == <<"payload", "url", "question", "plain">>
ButtonKinds == { ButtonSet[i] : i \in 1..Len(ButtonSet) }
ButtonTitle == <<"t">>
ButtonPayload(kind) == IF kind = "payload" THEN <<"/p">> ELSE <<"q?">>

\* The fields of the form the backend sends, in the order of formData.fields,
\* and what a control can hold.
FormFields ==
    << [field_name |-> "email", type |-> "text", required |-> TRUE],
       [field_name |-> "plan", type |-> "select", required |-> TRUE] >>
FieldNames == { FormFields[i].field_name : i \in 1..Len(FormFields) }
FieldValues == {"", "x"}
SubmitPayload == "/submit_form"
NoValues == [n \in FieldNames |-> ""]

NoRich == Rich(Msg("absent", Absent, "absent"), "absent", "absent", "absent", NoCustom)

NoDom ==
    [msg |-> NoRich, threw |-> FALSE, tree |-> <<>>, custom |-> <<>>, star |-> "none",
     btnDisabled |-> FALSE, btnSent |-> 0, selectedRating |-> 0, selected |-> {},
     formDisabled |-> FALSE, formSent |-> 0, formValues |-> NoValues, click |-> "none",
     at |-> 0]

Has(seq, x) == \E i \in 1..Len(seq) : seq[i] = x

\* The elements displayMessage creates for message m under configuration cfg;
\* when a creator throws nothing is appended and the elements in the page
\* stay as they are.
Created(d, m, cfg) ==
    LET r == RenderFields(m)
    IN  IF r.threw
        THEN [d EXCEPT !.msg = m, !.threw = TRUE, !.click = "none"]
        ELSE [NoDom EXCEPT
                 !.msg = m,
                 !.tree = r.nodes,
                 !.custom = RenderCustomPayload(m.custom).nodes,
                 !.star = IF Has(RenderCustomPayload(m.custom).nodes, "rating")
                          THEN StarStyles(cfg, [NoStyles EXCEPT !["color"] =
                                                   m.custom.star])["color"]
                          ELSE "none"]

Digit(i) == <<"0", "1", "2", "3", "4", "5", "6", "7", "8", "9">>[i + 1]

\* for (let i = ratingData.scale; i >= 1; i--): the values of the stars.
Stars(scale) == [k \in 1..scale |-> scale - k + 1]

\* `Rated ${selectedRating} stars` and `/rate_service{"rating":${selectedRating}}`
RatedText(i) == <<"Rated ", Digit(i), " stars">>
RatePayload(i) == <<"/rate_service{\"rating\":", Digit(i), "}">>

OnStarClickMut(d, scale, i) ==
    [d EXCEPT !.selectedRating = i, !.at = i,
              !.selected = @ \cup { v \in 1..scale : Has(Stars(scale), v) /\ v <= i },
              !.click = "star"]

\* The click listener of star i, up to its sendMessageCallback call.
OnStarClick(d, scale, i) ==
    [d EXCEPT !.selectedRating = i, !.at = i,
              !.selected = { v \in 1..scale : Has(Stars(scale), v) /\ v <= i },
              !.click = "star"]

OnButtonClickMut(d, kind) ==
    IF kind \in {"payload", "question"}
    THEN [d EXCEPT !.btnSent = @ + 1, !.click = kind]
    ELSE [d EXCEPT !.click = kind]

\* The click listener of a button of the kind, if it has one.
OnButtonClick(d, kind) ==
    IF kind \in {"payload", "question"}
    THEN [d EXCEPT !.btnDisabled = TRUE, !.btnSent = @ + 1, !.click = kind]
    ELSE [d EXCEPT !.click = kind]

\* inputElement.required as createDynamicForm sets it: the select branch
\* does not.
RequiredAttr(field) == field.type # "select" /\ field.required

\* The constraint validation of the browser before the submit event.
Valid(values) ==
    \A i \in 1..Len(FormFields) :
        RequiredAttr(FormFields[i]) => values[FormFields[i].field_name] # ""

\* Object.entries(formValues).map(([k, v]) => `${k}: ${v}`).join(', ')
RECURSIVE Pairs(_, _)
Pairs(values, n) ==
    IF n = 0 THEN <<>>
    ELSE Pairs(values, n - 1) \o (IF n > 1 THEN <<", ">> ELSE <<>>)
         \o <<FormFields[n].field_name, ": ", values[FormFields[n].field_name]>>

\* JSON.stringify(formValues)
RECURSIVE Members(_, _)
Members(values, n) ==
    IF n = 0 THEN <<>>
    ELSE Members(values, n - 1) \o (IF n > 1 THEN <<",">> ELSE <<>>)
         \o <<"\"", FormFields[n].field_name, "\":\"", values[FormFields[n].field_name],
              "\"">>

JSONStringifyValues(values) == <<"{">> \o Members(values, Len(FormFields)) \o <<"}">>

FormText(values) == <<"Submitted form: ">> \o Pairs(values, Len(FormFields))
FormPayload(values) == <<SubmitPayload>> \o JSONStringifyValues(values)

OnSubmitMut(d, values) ==
    [d EXCEPT !.formSent = @ + 1, !.formValues = values, !.click = "submit"]

\* The submit listener of the form.
OnSubmit(d, values) ==
    [d EXCEPT !.formDisabled = TRUE, !.formSent = @ + 1, !.formValues = values,
              !.click = "submit"]

\* A second page of the profile: its widget's phase, session id and history.
NoPeer == [phase |-> "init", sessionId |-> "null", messages |-> <<>>]

\* ----------------------------------------------------------------- state
VARIABLES
    lsSessionId,     \* localStorage['chatbot_session_id']
    lsConversation,  \* localStorage['chatbot_conversation_' + id], per id
    phase,           \* "load" (init() awaiting the fetch of loadConfig), "init"
                     \* (loadConfig done, init() not yet resumed) or "ready"
    domListener,     \* the DOMContentLoaded listener of init() is registered and pending
    fallbackTimer,   \* the 1000 ms fallback timeout of init() is pending
    sessionId,       \* this.sessionId
    messages,        \* this.messages
    containers,      \* the .chatbot-messages elements created so far; the last
                     \* one is this.elements.messagesContainer
    inputValue,      \* this.elements.inputField.value
    calls,           \* sendMessage invocations of this page
    nCalls,          \* number of sendMessage invocations so far
    nReloads,        \* number of page reloads so far
    nextId,          \* number of ids generateUniqueId has produced
    nFaults,         \* number of handlers that ran with localStorage failing
    lastOp,          \* the handler that ran last and what it did
    config,          \* this.config
    overlay,         \* the argument of the last mergeConfigs call
    chrome,          \* the texts of header title, input placeholder and send
                     \* button of the current UI
    rootStyle,       \* --chatbot-theme-color on the document element
    refreshInterval, \* this.refreshInterval, 0 for null
    timers,          \* the intervals running in the page
    nextTimer,       \* number of setInterval calls so far
    refreshes,       \* refreshConfig calls awaiting their fetch
    dom,             \* the interactive elements of the message rendered last,
                     \* and what the last click did
    peer             \* a second page of the browser profile: its widget

cfgVars == <<config, overlay, chrome, rootStyle, refreshInterval, timers, nextTimer,
             refreshes>>

\* The part only RenderSpec and SharedSpec follow.
extVars == <<dom, peer>>

vars == <<lsSessionId, lsConversation, phase, domListener,
          fallbackTimer, sessionId, messages, containers, inputValue, calls,
          nCalls, nReloads, nextId, nFaults, lastOp, config, overlay, chrome,
          rootStyle, refreshInterval, timers, nextTimer, refreshes, dom, peer>>

\* generateUniqueId draws 122 random bits; the model hands out ids that were
\* not handed out before.
IdPool == <<"s1", "s2", "s3">>
Ids == { IdPool[i] : i \in 1..Len(IdPool) }
NoSession == "null"

\* The condition of localStorage while one handler runs: "ok", "quota"
\* (setItem throws QuotaExceededError) or "disabled" (every access throws).
\* It is the browser's and the user's to change between handlers.
StorageModes == {"ok", "quota", "disabled"}

\* A handler runs with localStorage in condition mode.
Storage(mode) ==
    /\ mode # "ok" => nFaults < MaxFaults
    /\ nFaults' = IF mode # "ok" THEN nFaults + 1 ELSE nFaults

\* --------------------------------------------------------------- storage
SetItemSucceeds(mode) == mode = "ok"
GetItemSucceeds(mode) == mode # "disabled"

\* setLocalStorageItem: the new value of the item; the exception of a
\* failing setItem is caught and the item keeps its value.
SetLocalStorageItem(old, json, mode) == IF SetItemSucceeds(mode) THEN json ELSE old

GetLocalStorageItemMut(item, mode) == NoItem

\* getLocalStorageItem: item ? JSON.parse(item) : null, and null on an
\* exception.  The result is the item to parse, NoItem standing for null.
GetLocalStorageItem(item, mode) == IF GetItemSucceeds(mode) THEN item ELSE NoItem

\* ------------------------------------------------------- displayMessage
\* The part of the widget a displayMessage call reads and writes.
\*   threw  : an exception left displayMessage
\*   warned : setLocalStorageItem logged a write error
\*   mode   : the condition of localStorage during the handler
WidgetState(mode) ==
    [messages |-> messages, containers |-> containers, conv |-> lsConversation,
     mode |-> mode, threw |-> FALSE, warned |-> FALSE]

\* this.messages.push(message)
Push(msgs, message) == Append(msgs, message)

PersistedValueMut(msgs) == JSONStringifyMessages(<<msgs[Len(msgs)]>>)

\* The value displayMessage hands to setLocalStorageItem: the whole array.
PersistedValue(msgs) == JSONStringifyMessages(msgs)

DisplayMessageMut(st, message, save) ==
    IF RenderThrows(message) \/ st.containers = <<>>
    THEN [st EXCEPT !.threw = TRUE]
    ELSE LET n == Len(st.containers)
             shown == [st EXCEPT !.containers[n] = Append(@, RenderNode(message))]
             msgs == Push(shown.messages, message)
         IN  IF save /\ SetItemSucceeds(st.mode)
             THEN [shown EXCEPT !.messages = msgs,
                                !.conv[sessionId] = PersistedValue(msgs)]
             ELSE [shown EXCEPT !.warned = @ \/ save]

\* displayMessage(message, save)
DisplayMessage(st, message, save) ==
    IF RenderThrows(message) \/ st.containers = <<>>
    THEN [st EXCEPT !.threw = TRUE]
    ELSE LET n == Len(st.containers)
             shown == [st EXCEPT !.containers[n] = Append(@, RenderNode(message))]
         IN  IF save
             THEN LET msgs == Push(shown.messages, message)
                  IN  [shown EXCEPT
                          !.messages = msgs,
                          !.conv[sessionId] =
                              SetLocalStorageItem(@, PersistedValue(msgs), st.mode),
                          !.warned = @ \/ ~SetItemSucceeds(st.mode)]
             ELSE shown

\* list.forEach(m => this.displayMessage(m, save)): stops at the first throw.
RECURSIVE DisplayAll(_, _, _)
DisplayAll(st, list, save) ==
    IF list = <<>> \/ st.threw THEN st
    ELSE DisplayAll(DisplayMessage(st, Head(list), save), Tail(list), save)

\* ------------------------------------------------------------------ init
\* lastOp: the handler that ran last and what it was given.
\*   op, call : the handler and the sendMessage invocation it belongs to
\*   kind     : of a sendMessage "noop" or "sent"; of a settled fetch what it
\*              settled with; of an initSession the condition of localStorage;
\*              of a tick and a startAutoRefresh the interval
\*   text, payload, typed : the arguments of a sendMessage and the content of
\*              the input field it read (Absent if it did not read the field)
\*   resp     : the list a fetch settled with
\*   userAt   : the index in this.messages of the call's user message
\*   from     : the length of this.messages before the handler ran
\*   threw    : an exception left the handler
\*   warned   : setLocalStorageItem logged a write error; loadConfig or
\*              refreshConfig logged a failure
Op(name, call, kind, st) ==
    [op |-> name, call |-> call, kind |-> kind, text |-> Null, payload |-> Null,
     typed |-> Absent, resp |-> <<>>,
     userAt |-> IF call \in 1..Len(calls) THEN calls[call].userAt ELSE 0,
     from |-> Len(messages), threw |-> st.threw, warned |-> st.warned]

NoOp(name) ==
    [op |-> name, call |-> 0, kind |-> "none", text |-> Null, payload |-> Null,
     typed |-> Absent, resp |-> <<>>,
     userAt |-> 0, from |-> 0, threw |-> FALSE, warned |-> FALSE]

\* The widget as constructed in a fresh profile, initConfig done with the
\* chatbot-config attribute scriptConfig.
Constructed(scriptConfig) ==
    /\ config = InitConfig(scriptConfig)
    /\ overlay = NoConfig
    /\ chrome = NoChrome
    /\ rootStyle = "absent"
    /\ refreshInterval = 0
    /\ timers = {}
    /\ nextTimer = 0
    /\ refreshes = 0
    /\ phase = IF CfgTruthy(config.top["configApiUrl"]) THEN "load" ELSE "init"

Init ==
    /\ Constructed(NoConfig)
    /\ lsSessionId = NoItem
    /\ lsConversation = [id \in Ids |-> NoItem]
    /\ domListener = FALSE
    /\ fallbackTimer = FALSE
    /\ sessionId = NoSession
    /\ messages = <<>>
    /\ containers = <<>>
    /\ inputValue = EmptyStr
    /\ calls = <<>>
    /\ nCalls = 0
    /\ nReloads = 0
    /\ nextId = 0
    /\ nFaults = 0
    /\ lastOp = NoOp("constructor")
    /\ dom = NoDom
    /\ peer = NoPeer

CreateWidgetUIMut(st) ==
    DisplayAll([st EXCEPT !.containers = Append(@, <<>>)], st.messages, TRUE)

\* createWidgetUI as far as the message history is concerned: a new
\* .chatbot-messages element becomes this.elements.messagesContainer, then
\* this.messages.forEach(msg => this.displayMessage(msg, false)).
CreateWidgetUI(st) ==
    DisplayAll([st EXCEPT !.containers = Append(@, <<>>)], st.messages, FALSE)

\* initSession, and the rest of init() after `await this.loadConfig()`.
\* readyState is "loading" (the listener is registered) or not (the UI is
\* created at once); the fallback timeout is set in both cases.
InitSession(readyState, storageMode) ==
    /\ phase = "init"
    /\ Storage(storageMode)
    /\ LET stored == GetLocalStorageItem(lsSessionId, storageMode)
           fresh == stored = NoItem
           sid == IF fresh THEN IdPool[nextId + 1] ELSE JSONParseId(stored)
           loaded == GetLocalStorageItem(lsConversation[sid], storageMode)
           msgs == IF loaded = NoItem THEN <<>> ELSE JSONParseMessages(loaded)
           st0 == [WidgetState(storageMode) EXCEPT !.messages = msgs,
                                      !.warned = fresh /\ ~SetItemSucceeds(storageMode)]
           st == IF readyState = "loading" THEN st0 ELSE CreateWidgetUI(st0)
       IN  /\ fresh => nextId < Len(IdPool)
           /\ sessionId' = sid
           /\ nextId' = IF fresh THEN nextId + 1 ELSE nextId
           /\ lsSessionId' = IF fresh
                             THEN SetLocalStorageItem(lsSessionId, JSONStringifyId(sid),
                                                      storageMode)
                             ELSE lsSessionId
           /\ messages' = st.messages
           /\ containers' = st.containers
           /\ lastOp' = Op("initSession", 0, storageMode, st)
    /\ phase' = "ready"
    /\ domListener' = (readyState = "loading")
    /\ fallbackTimer' = TRUE
    /\ UNCHANGED <<lsConversation, inputValue, calls, nCalls, nReloads>>

\* The DOMContentLoaded listener of init(): createWidgetUI, unconditionally.
DOMContentLoaded ==
    /\ domListener
    /\ LET st == CreateWidgetUI(WidgetState("ok"))
       IN  /\ containers' = st.containers
           /\ lastOp' = Op("createWidgetUI", 0, "listener", st)
    /\ domListener' = FALSE
    /\ UNCHANGED <<lsSessionId, lsConversation, phase, fallbackTimer, sessionId,
                   messages, inputValue, calls, nCalls, nReloads, nextId, nFaults>>

\* The fallback timeout of init(): createWidgetUI if there is no
\* this.elements.container yet.
FallbackTimeout ==
    /\ fallbackTimer
    /\ LET create == containers = <<>>
           st == IF create THEN CreateWidgetUI(WidgetState("ok")) ELSE WidgetState("ok")
       IN  /\ containers' = st.containers
           /\ lastOp' = Op(IF create THEN "createWidgetUI" ELSE "fallbackTimeout", 0,
                        "timeout", st)
    /\ fallbackTimer' = FALSE
    /\ UNCHANGED <<lsSessionId, lsConversation, phase, domListener, sessionId,
                   messages, inputValue, calls, nCalls, nReloads, nextId, nFaults>>

\* The user leaves the page and loads it again: a new ChatbotWidget is
\* constructed and init() starts; localStorage is all that survives.
Reload ==
    /\ nReloads < MaxReloads
    /\ nReloads' = nReloads + 1
    /\ phase' = "init"
    /\ domListener' = FALSE
    /\ fallbackTimer' = FALSE
    /\ sessionId' = NoSession
    /\ messages' = <<>>
    /\ containers' = <<>>
    /\ inputValue' = EmptyStr
    /\ calls' = <<>>
    /\ lastOp' = NoOp("constructor")
    /\ UNCHANGED <<lsSessionId, lsConversation, nCalls, nextId, nFaults>>

\* ----------------------------------------------------------- sendMessage
\* text || this.elements.inputField.value.trim()
MessageText(text, value) == IF Truthy(text) THEN text ELSE Trim(value)

\* if (!messageText && !payload) return;
IsNoOp(messageText, payload) == ~Truthy(messageText) /\ ~Truthy(payload)

RequestBodyMut(messageText, payload) ==
    [sender |-> sessionId, message |-> messageText, customData |-> payload]

\* { sender, message, ...(payload && { customData: { payload } }) }
RequestBody(messageText, payload) ==
    [sender |-> sessionId, message |-> messageText,
     customData |-> IF Truthy(payload) THEN payload ELSE Absent]

\* A call record: where the invocation stands ("fetch": awaiting the backend,
\* "done": returned or rejected), the request it issued, and the index in
\* this.messages of its user message.
NoBody == [sender |-> NoSession, message |-> Absent, customData |-> Absent]
DoneCall == [pc |-> "done", body |-> NoBody, userAt |-> 0]

\* sendMessage up to `await fetch(...)`.  typed is what the user has typed
\* into the input field since the last handler ran (the field's own content
\* if nothing), max the number of invocations the behaviour is cut at.
SendMessageWithin(max, text, payload, typed, storageMode) ==
    /\ containers # <<>>
    /\ nCalls < max
    /\ nCalls' = nCalls + 1
    /\ LET messageText == MessageText(text, typed)
           op == [Op("sendMessage", Len(calls) + 1, "sent", WidgetState(storageMode))
                     EXCEPT !.text = text, !.payload = payload,
                            !.typed = IF Truthy(text) THEN Absent ELSE typed]
       IN  IF IsNoOp(messageText, payload)
           THEN /\ storageMode = "ok"
                /\ UNCHANGED nFaults
                /\ lastOp' = [op EXCEPT !.kind = "noop"]
                /\ calls' = Append(calls, DoneCall)
                /\ inputValue' = typed
                /\ UNCHANGED <<lsConversation, messages, containers>>
           ELSE LET st == DisplayMessage(WidgetState(storageMode),
                                         UserMessage(messageText), TRUE)
                IN  /\ Storage(storageMode)
                    /\ messages' = st.messages
                    /\ containers' = st.containers
                    /\ lsConversation' = st.conv
                    /\ inputValue' = EmptyStr
                    /\ lastOp' = [op EXCEPT !.threw = st.threw, !.warned = st.warned,
                                            !.userAt = Len(st.messages)]
                    /\ calls' = Append(calls,
                           [pc |-> "fetch", body |-> RequestBody(messageText, payload),
                            userAt |-> Len(st.messages)])
    /\ UNCHANGED <<lsSessionId, phase, domListener, fallbackTimer,
                   sessionId, nReloads, nextId>>

SendMessage(text, payload, typed, storageMode) ==
    SendMessageWithin(MaxCalls, text, payload, typed, storageMode)

\* What the backend request can settle with.
\*   "network"   : fetch rejects
\*   "status"    : a response with response.ok false
\*   "malformed" : response.json() rejects
\*   "nolength"  : a 2xx JSON body without a positive length (null, {}, 0)
\*   "string"    : a 2xx JSON string: it has a length and no forEach
\*   "list"      : a 2xx JSON array
RECURSIVE SeqsUpTo(_, _)
SeqsUpTo(S, n) ==
    IF n = 0 THEN { <<>> }
    ELSE LET shorter == SeqsUpTo(S, n - 1)
         IN  shorter \cup { Append(s, x) : s \in shorter, x \in S }

Outcomes ==
    { [kind |-> k, list |-> <<>>] :
          k \in {"network", "status", "malformed", "nolength", "string"} }
    \cup { [kind |-> "list", list |-> l] : l \in SeqsUpTo(RespObjects, MaxRespLen) }

IsFailure(outcome) == outcome.kind \in {"network", "status", "malformed"}

RECURSIVE Map(_, _)
Map(list, n) == IF n = 0 THEN <<>> ELSE Append(Map(list, n - 1), BotMessage(list[n]))

OnCatchMut(st) == [st EXCEPT !.threw = FALSE]

\* catch (error) { ...; this.displayMessage(trouble message) }
OnCatch(st) == DisplayMessage([st EXCEPT !.threw = FALSE], TroubleMessage, TRUE)

\* else { this.displayMessage(no-response message) }
OnEmpty(st) == DisplayMessage(st, NoResponseMessage, TRUE)

\* The try block of sendMessage after the fetch settled, then the catch.
AfterFetch(st, outcome) ==
    LET tried ==
            IF IsFailure(outcome) \/ outcome.kind = "string"
            THEN [st EXCEPT !.threw = TRUE]
            ELSE IF outcome.kind = "list" /\ Len(outcome.list) > 0
            THEN DisplayAll(st, Map(outcome.list, Len(outcome.list)), TRUE)
            ELSE OnEmpty(st)
    IN  IF tried.threw THEN OnCatch(tried) ELSE tried

FetchSettles(i, outcome, storageMode) ==
    /\ i \in 1..Len(calls)
    /\ calls[i].pc = "fetch"
    /\ Storage(storageMode)
    /\ LET st == AfterFetch(WidgetState(storageMode), outcome)
       IN  /\ messages' = st.messages
           /\ containers' = st.containers
           /\ lsConversation' = st.conv
           /\ lastOp' = [Op("fetchSettles", i,
                               IF outcome.kind = "list" /\ outcome.list = <<>>
                               THEN "emptylist" ELSE outcome.kind, st)
                             EXCEPT !.resp = outcome.list]
           /\ calls' = [calls EXCEPT ![i] = DoneCall]
    /\ UNCHANGED <<lsSessionId, phase, domListener, fallbackTimer,
                   sessionId, inputValue, nCalls, nReloads, nextId>>

\* ------------------------------------------------- configuration handlers
chatVars == <<lsSessionId, lsConversation, phase, domListener, fallbackTimer,
              sessionId, messages, containers, inputValue, calls, nCalls, nReloads,
              nextId, nFaults>>

Scheduler == [handle |-> refreshInterval, timers |-> timers]

\* `await this.loadConfig()` of init(): the fetch of the initial config
\* settles, the answer is merged or the failure logged, and init() goes on.
LoadConfigSettles(outcome) ==
    /\ phase = "load"
    /\ phase' = "init"
    /\ config' = OnConfigResponse(config, outcome)
    /\ overlay' = IF Merges(outcome) THEN outcome.body ELSE overlay
    /\ lastOp' = [Op("loadConfig", 0, outcome.kind, WidgetState("ok"))
                     EXCEPT !.warned = ~Merges(outcome)]
    /\ UNCHANGED <<lsSessionId, lsConversation, domListener, fallbackTimer, sessionId,
                   messages, containers, inputValue, calls, nCalls, nReloads, nextId,
                   nFaults, chrome, rootStyle, refreshInterval, timers, nextTimer,
                   refreshes>>

\* createWidgetUI as far as the configuration is concerned: refreshConfig()
\* is called and left awaiting its fetch, the chrome is written from
\* this.config, and the auto refresh is started if this.config.autoRefresh.
CreateWidgetUIConfig ==
    /\ refreshes' = refreshes + 1
    /\ chrome' = ChromeOf(config)
    /\ IF CfgTruthy(config.top["autoRefresh"])
       THEN LET interval == IF CfgTruthy(config.top["autoRefreshInterval"])
                            THEN config.top["autoRefreshInterval"] ELSE DefaultInterval
                sch == StartAutoRefresh(Scheduler, interval, nextTimer + 1)
            IN  /\ nextTimer < MaxTimers
                /\ nextTimer' = nextTimer + 1
                /\ refreshInterval' = sch.handle
                /\ timers' = sch.timers
       ELSE UNCHANGED <<refreshInterval, timers, nextTimer>>
    /\ UNCHANGED <<config, overlay, rootStyle>>

\* The configuration side of a step of init(): that of createWidgetUI if
\* the step ran it.
UIConfig ==
    IF Len(containers') > Len(containers) THEN CreateWidgetUIConfig
    ELSE UNCHANGED cfgVars

\* The host page calls window.ChatbotSDK.startAutoRefresh(interval).
CallStartAutoRefresh(interval) ==
    /\ nextTimer < MaxTimers
    /\ nextTimer' = nextTimer + 1
    /\ LET sch == StartAutoRefresh(Scheduler, interval, nextTimer + 1)
       IN  /\ refreshInterval' = sch.handle
           /\ timers' = sch.timers
    /\ lastOp' = Op("startAutoRefresh", 0, interval, WidgetState("ok"))
    /\ UNCHANGED chatVars
    /\ UNCHANGED <<config, overlay, chrome, rootStyle, refreshes>>

\* The host page calls window.ChatbotSDK.stopAutoRefresh().
CallStopAutoRefresh ==
    /\ LET sch == StopAutoRefresh(Scheduler)
       IN  /\ refreshInterval' = sch.handle
           /\ timers' = sch.timers
    /\ lastOp' = Op("stopAutoRefresh", 0, "none", WidgetState("ok"))
    /\ UNCHANGED chatVars
    /\ UNCHANGED <<config, overlay, chrome, rootStyle, nextTimer, refreshes>>

TickMut(t) ==
    /\ t \in timers
    /\ refreshes < MaxInFlight
    /\ refreshes' = refreshes + 1
    /\ timers' = timers \ {t}
    /\ lastOp' = Op("tick", 0, t.interval, WidgetState("ok"))
    /\ UNCHANGED chatVars
    /\ UNCHANGED <<config, overlay, chrome, rootStyle, refreshInterval, nextTimer>>

\* A running interval fires: () => this.refreshConfig(), up to its fetch.
\* The interval stays.
Tick(t) ==
    /\ t \in timers
    /\ refreshes < MaxInFlight
    /\ refreshes' = refreshes + 1
    /\ lastOp' = Op("tick", 0, t.interval, WidgetState("ok"))
    /\ UNCHANGED chatVars
    /\ UNCHANGED <<config, overlay, chrome, rootStyle, refreshInterval, timers,
                   nextTimer>>

\* The fetch of a refreshConfig call settles: merge, applyDynamicStyles and
\* updateUIElements, or the catch.
RefreshSettles(outcome) ==
    /\ refreshes > 0
    /\ refreshes' = refreshes - 1
    /\ LET cfg == OnConfigResponse(config, outcome)
           els == [chrome |-> chrome, containers |-> containers]
           upd == IF Merges(outcome) THEN UpdateUIElements(els, cfg) ELSE els
       IN  /\ config' = cfg
           /\ overlay' = IF Merges(outcome) THEN outcome.body ELSE overlay
           /\ rootStyle' = IF Merges(outcome) THEN ApplyDynamicStyles(rootStyle, cfg)
                           ELSE rootStyle
           /\ chrome' = upd.chrome
           /\ containers' = upd.containers
    /\ lastOp' = [Op("refreshConfig", 0, outcome.kind, WidgetState("ok"))
                     EXCEPT !.warned = ~Merges(outcome)]
    /\ UNCHANGED <<lsSessionId, lsConversation, phase, domListener, fallbackTimer,
                   sessionId, messages, inputValue, calls, nCalls, nReloads, nextId,
                   nFaults, refreshInterval, timers, nextTimer>>

\* The message history of a page embedded without a chatbot-config
\* attribute, over reloads and storage failures.  No handler of the history
\* reads or writes the configuration part, which is followed in ConfigSpec.
Next ==
    \/ \E rs \in {"loading", "interactive"}, m \in StorageModes :
          InitSession(rs, m) /\ UNCHANGED <<cfgVars, extVars>>
    \/ DOMContentLoaded /\ UNCHANGED <<cfgVars, extVars>>
    \/ FallbackTimeout /\ UNCHANGED <<cfgVars, extVars>>
    \/ Reload /\ UNCHANGED <<cfgVars, extVars>>
    \/ \E a \in CallArgs, v \in InputValues, m \in StorageModes :
          SendMessage(a[1], a[2], v, m) /\ UNCHANGED <<cfgVars, extVars>>
    \/ \E i \in 1..MaxCalls, o \in Outcomes, m \in StorageModes :
          FetchSettles(i, o, m) /\ UNCHANGED <<cfgVars, extVars>>

Spec == Init /\ [][Next]_vars

\* One page with working storage, embedded with any of ScriptConfigs: the
\* configuration, the scheduler and the chrome, next to one send.
ConfigInit ==
    /\ \E s \in ScriptConfigs : Constructed(s)
    /\ lsSessionId = NoItem
    /\ lsConversation = [id \in Ids |-> NoItem]
    /\ domListener = FALSE
    /\ fallbackTimer = FALSE
    /\ sessionId = NoSession
    /\ messages = <<>>
    /\ containers = <<>>
    /\ inputValue = EmptyStr
    /\ calls = <<>>
    /\ nCalls = 0
    /\ nReloads = 0
    /\ nextId = 0
    /\ nFaults = 0
    /\ lastOp = NoOp("constructor")
    /\ dom = NoDom
    /\ peer = NoPeer

ConfigChatOutcomes ==
    { [kind |-> "network", list |-> <<>>],
      [kind |-> "list", list |-> << Msg("absent", <<"h">>, "absent") >>] }

ConfigNext ==
    \/ \E o \in ConfigOutcomes : LoadConfigSettles(o) /\ UNCHANGED extVars
    \/ \E rs \in {"loading", "interactive"} :
          InitSession(rs, "ok") /\ UIConfig /\ UNCHANGED extVars
    \/ DOMContentLoaded /\ UIConfig /\ UNCHANGED extVars
    \/ FallbackTimeout /\ UIConfig /\ UNCHANGED extVars
    \/ CallStartAutoRefresh(DefaultInterval) /\ UNCHANGED extVars
    \/ CallStopAutoRefresh /\ UNCHANGED extVars
    \/ \E t \in timers : Tick(t) /\ UNCHANGED extVars
    \/ \E o \in ConfigOutcomes : RefreshSettles(o) /\ UNCHANGED extVars
    \/ /\ nCalls = 0
       /\ SendMessage(<<"a">>, Null, EmptyStr, "ok")
       /\ UNCHANGED <<cfgVars, extVars>>
    \/ \E i \in 1..MaxCalls, o \in ConfigChatOutcomes :
          FetchSettles(i, o, "ok") /\ UNCHANGED <<cfgVars, extVars>>

ConfigSpec == ConfigInit /\ [][ConfigNext]_vars

\* ------------------------------------------------------- rendered messages
\* The chatbot-config attribute with a style section: with and without
\* style.messages.buttonColor, with and without
\* style.components.rating.star.color.
RenderScripts ==
    { [NoConfig EXCEPT !.style = [EmptyObj(StyleKeys) EXCEPT !.kv["messages"] = ms,
                                                             !.kv["components"] = k]] :
          ms \in {"absent", "m1"}, k \in {"absent", "k1"} }

\* The messages the backend answers with: every combination of the
\* top-level fields, with and without a custom payload of all variants; every
\* combination of present variants, with and without style.star.color; and
\* each variant alone in a shape its creator skips or throws on
\* (createRating throws on none).
Bases == { Msg("absent", t, v) : t \in {Absent, <<"h">>}, v \in {"absent", "mp4", "ytNoV"} }

FullCustom == [has |-> TRUE, v |-> [k \in Variants |-> "ok"], star |-> "missing"]

RichMessages ==
    { Rich(b, bt, im, ca, cu) :
          b \in Bases, bt \in Shapes, im \in {"absent", "ok"},
          ca \in {"absent", "ok", "bad"}, cu \in {NoCustom, FullCustom} }
    \cup { Rich(Msg("absent", <<"h">>, "absent"), "absent", "absent", "absent",
                [has |-> TRUE, v |-> f, star |-> c]) :
               f \in [Variants -> {"absent", "ok"}], c \in {"missing", "green"} }
    \cup { Rich(Msg("absent", <<"h">>, "absent"), "absent", "absent", "absent",
                [NoCustom EXCEPT !.has = TRUE, !.v[p[1]] = p[2]]) :
               p \in { <<k, "empty">> : k \in Variants }
                      \cup { <<k, "bad">> : k \in Variants \ {"rating"} } }

\* The fetch of call i settles with the one-element list [m]: the try block
\* of sendMessage displays { sender: 'bot', ...m }, and the catch runs if a
\* creator threw.
RichSettles(i, m) ==
    /\ i \in 1..Len(calls)
    /\ calls[i].pc = "fetch"
    /\ LET st0 == WidgetState("ok")
           tried == IF RenderFields(m).threw THEN [st0 EXCEPT !.threw = TRUE]
                    ELSE DisplayMessage(st0, BotMessage(m.base), TRUE)
           st == IF tried.threw THEN OnCatch(tried) ELSE tried
       IN  /\ messages' = st.messages
           /\ containers' = st.containers
           /\ lsConversation' = st.conv
           /\ lastOp' = [Op("fetchSettles", i, "list", st) EXCEPT !.resp = <<m.base>>]
           /\ calls' = [calls EXCEPT ![i] = DoneCall]
    /\ dom' = Created(dom, m, config)
    /\ UNCHANGED <<lsSessionId, phase, domListener, fallbackTimer, sessionId,
                   inputValue, nCalls, nReloads, nextId, nFaults, peer>>

\* A click on the button of the kind in the rendered button container; a
\* disabled button takes no click.
ClickButton(kind) ==
    /\ Has(dom.tree, "buttons")
    /\ ~dom.btnDisabled
    /\ dom' = OnButtonClick(dom, kind)
    /\ IF kind \in {"payload", "question"}
       THEN SendMessageWithin(MaxClickCalls, ButtonTitle, ButtonPayload(kind),
                              inputValue, "ok")
       ELSE UNCHANGED <<chatVars, lastOp>>
    /\ UNCHANGED peer

\* A click on the star of value i of the rendered rating.
ClickStar(i) ==
    /\ Has(dom.custom, "rating")
    /\ dom' = OnStarClick(dom, MaxScale, i)
    /\ SendMessageWithin(MaxClickCalls, RatedText(i), RatePayload(i), inputValue, "ok")
    /\ UNCHANGED peer

\* The user submits the rendered form with the controls holding values:
\* the browser validates, then fires the submit event.  A form whose
\* controls are disabled cannot be submitted.
SubmitForm(values) ==
    /\ Has(dom.custom, "forms")
    /\ ~dom.formDisabled
    /\ IF Valid(values)
       THEN /\ dom' = OnSubmit(dom, values)
            /\ SendMessageWithin(MaxClickCalls, FormText(values), FormPayload(values),
                                 inputValue, "ok")
       ELSE /\ dom' = [dom EXCEPT !.click = "blocked", !.formValues = values]
            /\ UNCHANGED <<chatVars, lastOp>>
    /\ UNCHANGED peer

RenderInit ==
    /\ \E s \in RenderScripts : Constructed(s)
    /\ lsSessionId = NoItem
    /\ lsConversation = [id \in Ids |-> NoItem]
    /\ domListener = FALSE
    /\ fallbackTimer = FALSE
    /\ sessionId = NoSession
    /\ messages = <<>>
    /\ containers = <<>>
    /\ inputValue = EmptyStr
    /\ calls = <<>>
    /\ nCalls = 0
    /\ nReloads = 0
    /\ nextId = 0
    /\ nFaults = 0
    /\ lastOp = NoOp("constructor")
    /\ dom = NoDom
    /\ peer = NoPeer

\* One page with working storage and a style configuration: the user sends
\* a message, the backend answers it with one of RichMessages, and the user
\* works the elements of the answer.
RenderNext ==
    \/ InitSession("interactive", "ok") /\ UIConfig /\ UNCHANGED extVars
    \/ /\ nCalls = 0
       /\ SendMessage(<<"a">>, Null, EmptyStr, "ok")
       /\ UNCHANGED <<cfgVars, extVars>>
    \/ \E m \in RichMessages : RichSettles(1, m) /\ UNCHANGED cfgVars
    \/ \E k \in ButtonKinds : ClickButton(k) /\ UNCHANGED cfgVars
    \/ \E i \in 1..MaxScale : ClickStar(i) /\ UNCHANGED cfgVars
    \/ \E v \in [FieldNames -> FieldValues] : SubmitForm(v) /\ UNCHANGED cfgVars

RenderSpec == RenderInit /\ [][RenderNext]_vars

\* ------------------------------------------------------ two pages, one store
\* The widget of the second page works as the first one does; of its
\* handlers the model follows what reaches the shared localStorage:
\* initSession and the displayMessage(message, true) calls of its sends.
PeerMessages == { UserMessage(<<"b">>), Msg("bot", <<"r">>, "absent") }

\* initSession in the second page.
PeerInitSession ==
    /\ peer.phase = "init"
    /\ LET stored == GetLocalStorageItem(lsSessionId, "ok")
           fresh == stored = NoItem
           sid == IF fresh THEN IdPool[nextId + 1] ELSE JSONParseId(stored)
           loaded == GetLocalStorageItem(lsConversation[sid], "ok")
           msgs == IF loaded = NoItem THEN <<>> ELSE JSONParseMessages(loaded)
       IN  /\ fresh => nextId < Len(IdPool)
           /\ nextId' = IF fresh THEN nextId + 1 ELSE nextId
           /\ lsSessionId' = IF fresh
                             THEN SetLocalStorageItem(lsSessionId, JSONStringifyId(sid), "ok")
                             ELSE lsSessionId
           /\ peer' = [phase |-> "ready", sessionId |-> sid, messages |-> msgs]
    /\ UNCHANGED <<lsConversation, phase, domListener, fallbackTimer, sessionId,
                   messages, containers, inputValue, calls, nCalls, nReloads, nFaults,
                   lastOp, dom>>

\* displayMessage(message, true) in the second page: push, then the whole
\* array of that page is written.
PeerDisplayMessage(message) ==
    /\ peer.phase = "ready"
    /\ Len(peer.messages) < MaxPeerLen
    /\ LET msgs == Push(peer.messages, message)
       IN  /\ peer' = [peer EXCEPT !.messages = msgs]
           /\ lsConversation' =
                  [lsConversation EXCEPT
                      ![peer.sessionId] = SetLocalStorageItem(@, PersistedValue(msgs), "ok")]
    /\ UNCHANGED <<lsSessionId, phase, domListener, fallbackTimer, sessionId,
                   messages, containers, inputValue, calls, nCalls, nReloads, nextId,
                   nFaults, lastOp, dom>>

\* Two pages of one profile with working storage, each appending to the
\* history of the session they share.
SharedNext ==
    \/ \E rs \in {"loading", "interactive"} :
          InitSession(rs, "ok") /\ UNCHANGED <<cfgVars, extVars>>
    \/ DOMContentLoaded /\ UNCHANGED <<cfgVars, extVars>>
    \/ FallbackTimeout /\ UNCHANGED <<cfgVars, extVars>>
    \/ SendMessage(<<"a">>, Null, EmptyStr, "ok") /\ UNCHANGED <<cfgVars, extVars>>
    \/ \E i \in 1..MaxCalls, o \in ConfigChatOutcomes :
          FetchSettles(i, o, "ok") /\ UNCHANGED <<cfgVars, extVars>>
    \/ PeerInitSession /\ UNCHANGED cfgVars
    \/ \E m \in PeerMessages : PeerDisplayMessage(m) /\ UNCHANGED cfgVars

SharedSpec == Init /\ [][SharedNext]_vars

\* ------------------------------------------------------------ properties
IsPrefix(a, b) == Len(a) <= Len(b) /\ SubSeq(b, 1, Len(a)) = a

\* What loading the history of session id from a store returns.
HistoryOf(conv, id) ==
    IF id \notin Ids \/ conv[id] = NoItem THEN <<>> ELSE JSONParseMessages(conv[id])

Persisted == HistoryOf(lsConversation, sessionId)

\* The messages the last handler appended to this.messages, and the nodes
\* at the end of the current message container.
Appended == SubSeq(messages, lastOp.from + 1, Len(messages))

Shown == containers[Len(containers)]
ShownLast(n) == SubSeq(Shown, Len(Shown) - n + 1, Len(Shown))

Rendered(msgs) == [i \in 1..Len(msgs) |-> RenderNode(msgs[i])]

Settled == lastOp.op = "fetchSettles"
SettledWith(kinds) == Settled /\ lastOp.kind \in kinds
FailureKinds == {"network", "status", "malformed"}

\* The text of the scenario "backend POST returns HTTP 500".
FallbackText == TroubleText

\* C1 as stated: a send whose request fails, or succeeds with an empty list,
\* appends exactly one bot message, the one with the fixed apology text, and
\* sendMessage does not throw.
C1_OneFixedApology ==
    SettledWith(FailureKinds \cup {"emptylist"}) =>
        /\ Len(Appended) = 1
        /\ Appended[1].sender = "bot"
        /\ Appended[1].text = FallbackText
        /\ ~lastOp.threw

\* C1 amended: such a send appends exactly one bot message and sendMessage
\* does not throw; the message is displayed, and its text is fixed per case:
\* the trouble-connecting text after a failure, the no-response text after an
\* empty list.
C1_OneApologyPerCase ==
    SettledWith(FailureKinds \cup {"emptylist"}) =>
        /\ Appended = << Msg("bot", IF lastOp.kind = "emptylist"
                                    THEN NoResponseText ELSE TroubleText, "absent") >>
        /\ ShownLast(1) = Rendered(Appended)
        /\ ~lastOp.threw
        /\ calls[lastOp.call].pc = "done"

\* A request answered with a non-2xx status while another call is still
\* waiting for its answer.
C1_Witness ==
    /\ SettledWith({"status"})
    /\ Appended = <<TroubleMessage>>
    /\ \E i \in 1..Len(calls) : calls[i].pc = "fetch"

\* The content of a returned object, without the sender.
Content(m) == <<m.text, m.video>>

\* C2: after a 2xx answer with a non-empty list the handler has appended one
\* message per returned object, in the order of the list, after the user
\* message of the call.
C2_AllAppendedInOrder ==
    (SettledWith({"list"}) /\ lastOp.resp # <<>>) =>
        /\ Len(Appended) = Len(lastOp.resp)
        /\ \A i \in 1..Len(Appended) : Content(Appended[i]) = Content(lastOp.resp[i])
        /\ lastOp.userAt \in 1..lastOp.from
        /\ messages[lastOp.userAt].sender = "user"

\* C3: every message a settled fetch appends has sender "bot".
C3_SenderIsBot ==
    Settled => \A i \in 1..Len(Appended) : Appended[i].sender = "bot"

\* The call the last handler belongs to.
Call == calls[lastOp.call]
Sent == lastOp.op = "sendMessage" /\ lastOp.kind = "sent"

\* What the send was given as its text: the argument, else the field content
\* without the surrounding blanks.
GivenText ==
    IF Truthy(lastOp.text) THEN lastOp.text
    ELSE SelectSeq(lastOp.typed, LAMBDA c : c # " ")

\* The body of the request and the user message of a send that went out.
C4_Request ==
    /\ Call.pc = "fetch"
    /\ Call.body.sender = sessionId
    /\ Call.body.message = GivenText
    /\ Truthy(lastOp.payload) => Call.body.customData = lastOp.payload
    /\ ~Truthy(lastOp.payload) => Call.body.customData = Absent
    /\ Appended = << Msg("user", GivenText, "absent") >>
    /\ ShownLast(1) = Rendered(Appended)

\* C4 as stated: when the request of a send is issued, its user message is
\* displayed and is in the in-memory and in the persisted history, and the
\* body carries the session id, the text, and the payload iff one was given.
C4_SavedBeforeRequest == Sent => (C4_Request /\ Persisted = messages)

\* C4 amended: the same, the persisted history holding the message unless the
\* storage write failed, in which case it is what it was; and as long as the
\* request is in flight the user message stays at its place in the history.
C4_DisplayedBeforeRequest ==
    /\ Sent => /\ C4_Request
               /\ ~lastOp.warned => Persisted = messages
               /\ lastOp.warned => IsPrefix(Persisted, SubSeq(messages, 1, lastOp.from))
    /\ \A i \in 1..Len(calls) :
           calls[i].pc = "fetch" =>
               /\ calls[i].userAt \in 1..Len(messages)
               /\ messages[calls[i].userAt] = UserMessage(calls[i].body.message)

\* A send of typed text with a payload has just issued its request.
C4_Witness ==
    /\ Sent
    /\ lastOp.typed = <<" ", "a", " ">>
    /\ Call.body.message = <<"a">>
    /\ Call.body.customData = <<"p">>
    /\ Persisted = messages

\* A string of blanks only (the empty string included).
Blank(s) == \A i \in 1..Len(s) : s[i] = " "

NoTextNoPayload ==
    /\ lastOp.op = "sendMessage"
    /\ ~Truthy(lastOp.text)
    /\ ~Truthy(lastOp.payload)
    /\ Blank(lastOp.typed)

\* C5: a sendMessage without text argument, with a blank input field and
\* without payload displays nothing, leaves the in-memory and the persisted
\* history as they are and issues no request.
C5_NoOp ==
    [][(nCalls' = nCalls + 1 /\ NoTextNoPayload')
           => /\ UNCHANGED <<messages, containers, lsConversation, lsSessionId>>
              /\ \A i \in 1..Len(calls') :
                     calls'[i].pc = "fetch" => (i <= Len(calls) /\ calls[i].pc = "fetch")]_vars

\* A click on send with only blanks in the field, after an earlier exchange.
C5_Witness ==
    /\ NoTextNoPayload
    /\ lastOp.typed = <<" ">>
    /\ Len(messages) >= 2
    /\ Call.pc = "done"

\* C6 as stated: loading the history of the session returns exactly the
\* messages displayed with save = true, in order, after the history the
\* session was resumed with: the stored history is the in-memory one.
C6_LoadReturnsAppended == phase = "ready" => Persisted = messages

HandlerAppended == lastOp.op \in {"sendMessage", "fetchSettles"} /\ Appended # <<>>

\* C6 amended: the stored history is the in-memory history as of the last
\* append whose storage write succeeded: it is a prefix of the in-memory
\* history, equal to it after initSession and after every handler whose
\* writes succeeded.
C6_RoundTrip ==
    phase = "ready" =>
        /\ IsPrefix(Persisted, messages)
        /\ lastOp.op = "initSession" => Persisted = messages
        /\ (HandlerAppended /\ ~lastOp.warned) => Persisted = messages

\* A session resumed after a reload with its stored history, then extended
\* by a send whose write succeeded.
C6_Witness ==
    /\ nReloads = 1
    /\ lsSessionId = JSONStringifyId(sessionId)
    /\ Sent
    /\ ~lastOp.warned
    /\ lastOp.from >= 2
    /\ Persisted = messages

\* C7: in every step the stored history of every session id stays or is
\* extended at its end, and so does this.messages during a page lifetime.
\* It holds of one page (Spec) and fails with a second page on the session
\* (SharedSpec).
C7_AppendOnly ==
    [][/\ nReloads' = nReloads => IsPrefix(messages, messages')
       /\ \A id \in Ids :
              IsPrefix(HistoryOf(lsConversation, id), HistoryOf(lsConversation', id))]_vars

\* C8 as stated: with an id in the store, the page runs under that id.
C8_SameIdOncePersisted ==
    (phase = "ready" /\ lsSessionId # NoItem) => sessionId = JSONParseId(lsSessionId)

\* C8 amended: an initSession that can read the store yields the stored id
\* and leaves it stored, and no other step changes this.sessionId or the
\* stored id.
C8_SameIdWhenReadable ==
    [][/\ (phase = "init" /\ phase' = "ready" /\ lsSessionId # NoItem
              /\ lastOp'.kind # "disabled")
           => (sessionId' = JSONParseId(lsSessionId) /\ lsSessionId' = lsSessionId)
       /\ (phase = "ready" /\ phase' = "ready") => UNCHANGED <<sessionId, lsSessionId>>
       /\ phase' = "init" => lsSessionId' = lsSessionId]_vars

\* A page loaded again, with the disk full, that runs under the stored id.
C8_Witness ==
    /\ nReloads = 1
    /\ lastOp.op = "initSession"
    /\ lastOp.kind = "quota"
    /\ sessionId = "s1"
    /\ lsSessionId = JSONStringifyId("s1")
    /\ messages # <<>>

\* C9: a handler whose storage write fails does not throw, logs the failure,
\* keeps what it appended in this.messages and leaves the store as it was; a
\* send among them still issues its request; and the next handler whose
\* write succeeds stores the whole in-memory history.
C9_WriteFailureKeepsMemory ==
    [][/\ (lastOp'.op \in {"sendMessage", "fetchSettles"} /\ lastOp'.warned)
           => /\ ~lastOp'.threw
              /\ IsPrefix(messages, messages')
              /\ Len(messages') > Len(messages)
              /\ lsConversation' = lsConversation
              /\ lastOp'.op = "sendMessage" => calls'[lastOp'.call].pc = "fetch"
       /\ (lastOp'.op \in {"sendMessage", "fetchSettles"} /\ ~lastOp'.warned
              /\ messages' # messages)
           => HistoryOf(lsConversation', sessionId') = messages']_vars

\* The write of a user message failed; the answer to that send was appended
\* to the in-memory history and stored together with the user message.
C9_Witness ==
    /\ nReloads = 0
    /\ nFaults = 1
    /\ lsSessionId # NoItem
    /\ Settled
    /\ lastOp.kind = "list"
    /\ ~lastOp.warned
    /\ lastOp.from = 1
    /\ Persisted = messages

\* C10: a run of createWidgetUI fills the new message container with the
\* nodes of this.messages in order, leaves the earlier containers, the store
\* and - the history once loaded - this.messages as they are.
C10_ReplayLeavesHistory ==
    [][Len(containers') = Len(containers) + 1
           => /\ containers'[Len(containers')] = Rendered(messages')
              /\ SubSeq(containers', 1, Len(containers)) = containers
              /\ lsConversation' = lsConversation
              /\ phase = "ready" => messages' = messages
              /\ messages' = HistoryOf(lsConversation', sessionId')
                     \/ messages' = messages]_vars

\* The stored history replayed a second time in the same page.
C10_Witness ==
    /\ lastOp.op = "createWidgetUI"
    /\ Len(containers) = 2
    /\ Len(messages) >= 2
    /\ containers[2] = Rendered(messages)
    /\ containers[1] = containers[2]

\* ------------------------------------------- properties of the scheduler
\* The last step ran the named handler.
Ran(name) == lastOp'.op = name

\* This step called setInterval.
Started == nextTimer' = nextTimer + 1

\* C11: after every step at most one interval is running, and it is the one
\* this.refreshInterval names; a start while an interval is running leaves
\* the new interval alone, the prior one is cancelled.
C11_OneTimer ==
    [][/\ Cardinality(timers') <= 1
       /\ \A t \in timers' : t.id = refreshInterval'
       /\ Started => /\ Cardinality(timers') = 1
                     /\ timers' \cap timers = {}
                     /\ refreshInterval' = nextTimer']_vars

\* createWidgetUI ran twice with autoRefresh on and started the auto refresh
\* both times; the one interval left has fired.
C11_Witness ==
    /\ lastOp.op = "tick"
    /\ Len(containers) = 2
    /\ nextTimer = 2
    /\ timers = { [id |-> 2, interval |-> DefaultInterval] }

\* C12: stopAutoRefresh leaves no interval running and leaves the refreshes
\* in flight as they are; a tick fires only from a running interval, and
\* only a call of startAutoRefresh makes an interval run again.
C12_NoTickAfterStop ==
    [][/\ Ran("stopAutoRefresh")
           => (timers' = {} /\ refreshInterval' = 0 /\ refreshes' = refreshes)
       /\ Ran("tick") => \E t \in timers : t.id = refreshInterval
       /\ (timers = {} /\ timers' # {}) => Started]_vars

\* A page without UI yet: the host started the auto refresh, a tick sent its
\* request, the host stopped the auto refresh, and the request then settled
\* and was merged.
C12_Witness ==
    /\ lastOp.op = "refreshConfig"
    /\ lastOp.kind = "json"
    /\ containers = <<>>
    /\ timers = {}
    /\ refreshInterval = 0
    /\ config = MergeConfigs(config, overlay)
    /\ overlay \in RemoteConfigs

\* C13: a refresh that fails leaves the intervals and this.refreshInterval as
\* they are, a tick leaves its interval running, an interval ends only by a
\* stop or a new start, and a running interval can fire (as long as fewer
\* than MaxInFlight requests are in flight).
C13_FailedTickKeepsTimer ==
    /\ [][/\ (Ran("refreshConfig") /\ lastOp'.warned)
              => UNCHANGED <<timers, refreshInterval>>
          /\ Ran("tick") => UNCHANGED <<timers, refreshInterval>>
          /\ (\E t \in timers : t \notin timers')
              => (Started \/ Ran("stopAutoRefresh"))]_vars
    /\ []((timers # {} /\ refreshes < MaxInFlight) => ENABLED (\E t \in timers : Tick(t)))

\* A refresh failed on the network while the interval is running, and the
\* interval has fired again since the request went out.
C13_Witness ==
    /\ lastOp.op = "refreshConfig"
    /\ lastOp.kind = "network"
    /\ lastOp.warned
    /\ timers # {}
    /\ refreshes > 0
    /\ Len(containers) = 0

\* ---------------------------------------- properties of the configuration
\* This step settled the fetch of loadConfig or of a refreshConfig call.
ConfigSettled == Ran("refreshConfig") \/ Ran("loadConfig")
ConfigSettledWith(kinds) == ConfigSettled /\ lastOp'.kind \in kinds

\* The requests to the config endpoint this step leaves in flight, given
\* that it settled one.
NoRetry ==
    /\ Ran("refreshConfig") => refreshes' = refreshes - 1
    /\ Ran("loadConfig") => (refreshes' = refreshes /\ phase' = "init")
    /\ UNCHANGED <<timers, refreshInterval>>

\* C14: a config fetch that fails on the network or on a body that is not
\* JSON leaves this.config, the chrome and the root style as they were, logs
\* the failure, throws nothing, and issues no new request.
C14_FailureKeepsConfig ==
    [][ConfigSettledWith({"network", "notjson"})
           => /\ UNCHANGED <<config, chrome, rootStyle>>
              /\ lastOp'.warned
              /\ ~lastOp'.threw
              /\ NoRetry]_vars

\* A refresh answered with a body that is not JSON, after an earlier answer
\* was merged.
C14_Witness ==
    /\ lastOp.op = "refreshConfig"
    /\ lastOp.kind = "notjson"
    /\ lastOp.warned
    /\ overlay \in RemoteConfigs
    /\ config = MergeConfigs(config, overlay)
    /\ containers # <<>>

\* C15: a config fetch answered with a non-2xx status leaves this.config and
\* the chrome as they were.
C15_StatusKeepsConfig ==
    [][ConfigSettledWith({"status"}) => UNCHANGED <<config, chrome>>]_vars

\* result is base with every member of over written over it, the style and
\* the features sections united member by member, those of over winning.
IsMergeOf(base, over, result) ==
    /\ \A k \in PlainKeys :
           result.top[k] = IF over.top[k] # "absent" THEN over.top[k] ELSE base.top[k]
    /\ result.style.has
    /\ \A k \in StyleKeys :
           result.style.kv[k] = IF over.style.kv[k] # "absent"
                                THEN over.style.kv[k] ELSE base.style.kv[k]
    /\ result.features.has
    /\ \A k \in FeatureKeys :
           result.features.kv[k] = IF over.features.kv[k] # "absent"
                                   THEN over.features.kv[k] ELSE base.features.kv[k]

\* This step called mergeConfigs and the call returned.
Merged == ConfigSettled /\ ~lastOp'.warned

\* C16: a mergeConfigs call yields the overlay's value for every plain member
\* the overlay carries, the base value for the others, and for style and
\* features the one-level union with the overlay's members winning.
C16_MergeLayers == [][Merged => IsMergeOf(config, overlay', config')]_vars

\* The embedded theme colour survived a refresh whose style section carries
\* another member, and the bot name of that answer replaced the default.
C16_Witness ==
    /\ lastOp.op = "refreshConfig"
    /\ ~lastOp.warned
    /\ overlay.style.kv["messages"] = "m2"
    /\ config.style.kv["themeColor"] = "c1"
    /\ config.style.kv["messages"] = "m2"
    /\ config.top["botName"] = "null"
    /\ config.top["botUrl"] = Defaults["botUrl"]

\* C17: merging any overlay into the effective config twice yields what
\* merging it once yields.
C17_MergeIdempotent ==
    \A o \in RemoteConfigs :
        MergeConfigs(MergeConfigs(config, o), o) = MergeConfigs(config, o)

\* The answers of two refreshes were merged, the last one into a config that
\* already held it.
C17_Witness ==
    /\ lastOp.op = "refreshConfig"
    /\ ~lastOp.warned
    /\ overlay \in RemoteConfigs
    /\ overlay.top["botName"] = "B"
    /\ config.top["botName"] = "B"
    /\ config.features.kv["b"] = "x"
    /\ config.top["autoRefresh"] = "true"

\* A member that carries a value.
IsSet(v) == v \notin {"absent", "null", ""}

\* C18: once init() has gone past loadConfig, each of the six keys is set in
\* the effective config.
C18_DefaultKeysSet ==
    phase \in {"init", "ready"} => \A k \in DefaultKeys : IsSet(config.top[k])

\* C19: every step leaves this.config as it is or replaces it by the
\* complete merge of it with the overlay of that step, also while a refresh
\* and a send are in flight; and what a step does not merge it does not
\* touch.
C19_AtomicMerge ==
    [][/\ config' = config \/ IsMergeOf(config, overlay', config')
       /\ ~Merged => config' = config]_vars

\* An answer was merged and changed the config while another refresh and the
\* request of a send are in flight.
C19_Witness ==
    /\ lastOp.op = "refreshConfig"
    /\ ~lastOp.warned
    /\ refreshes > 0
    /\ \E i \in 1..Len(calls) : calls[i].pc = "fetch"
    /\ config.style.kv["themeColor"] = "c2"
    /\ config.top["botName"] = "B"
    /\ rootStyle = "c2"

\* C20: a tick and the settling of a refresh, merged or failed, leave
\* this.messages, the store and the rendered message nodes as they are.
C20_RefreshLeavesHistory ==
    [][(Ran("tick") \/ Ran("refreshConfig"))
           => UNCHANGED <<messages, lsConversation, lsSessionId, containers>>]_vars

\* A refresh rewrote the chrome of a UI that shows an exchange.
C20_Witness ==
    /\ lastOp.op = "refreshConfig"
    /\ lastOp.kind = "json"
    /\ chrome.title = "B"
    /\ Len(messages) >= 2
    /\ Shown = Rendered(messages)
    /\ Persisted = messages

\* ------------------------------------------------ properties of two pages
\* The pages share the session, and both are past initSession.
Sharing == phase = "ready" /\ peer.phase = "ready" /\ sessionId = peer.sessionId

\* C29: with two pages on one session id, every message either page has
\* appended is in the stored history of the session.
C29_NoLostAppend ==
    Sharing =>
        /\ \A i \in 1..Len(messages) : Has(Persisted, messages[i])
        /\ \A i \in 1..Len(peer.messages) : Has(Persisted, peer.messages[i])

\* ------------------------------------------------- properties of init()
\* C28: a widget instance creates its UI at most once.
C28_CreatedOnce == Len(containers) <= 1

\* ------------------------------------------------- properties of a send
\* C30: once the request of a send has settled, the history holds a bot
\* message after the user message of that send.
C30_SettledHasBotReply ==
    Settled =>
        \E j \in (lastOp.userAt + 1)..Len(messages) : messages[j].sender = "bot"

\* ------------------------------------------- properties of the renderer
\* A message has been given to displayMessage.
Displayed == dom.msg # NoRich

\* The value the three tiers resolve to: that of the message if it supplies
\* one, else that of the configuration, else the default, else none.
Resolve(override, configured, default) ==
    IF override # "missing" THEN override
    ELSE IF configured # "missing" THEN configured
    ELSE IF default # "missing" THEN default
    ELSE "unset"

\* C21: the colour applied to the stars of a rating is the one the three
\* tiers resolve to.
C21_ThreeTier ==
    dom.star # "none" =>
        dom.star = Resolve(dom.msg.custom.star,
                           ConfigTier(config, "rating", "star")["color"],
                           MessagesOf(config.style.kv["messages"]).buttonColor)

\* A field the message is populated with; every field that needs a shape
\* has it.
Populated(m, f) ==
    IF f = "video" THEN m.base.video # "absent" ELSE FieldShapes(m)[f] = "ok"

WellFormed(m) ==
    /\ m.buttons \in {"absent", "ok"}
    /\ m.carousel \in {"absent", "ok"}
    /\ \A k \in Variants : m.custom.v[k] \in {"absent", "ok"}

\* C22: a rendered message has one node per populated field in the order
\* text, buttons, image, video, carousel, custom, and its custom container
\* one node per present variant in the order locations, faq_list, table,
\* rating, forms, video.
C22_NodePerField ==
    (Displayed /\ WellFormed(dom.msg)) =>
        /\ dom.tree = SelectSeq(FieldOrder, LAMBDA f : Populated(dom.msg, f))
        /\ dom.custom = SelectSeq(VariantOrder, LAMBDA k : dom.msg.custom.v[k] = "ok")

\* C23: rendering a message never throws, whatever the shape of its fields,
\* and the message is appended.
C23_MalformedSkipped ==
    Displayed =>
        /\ ~dom.threw
        /\ Has(messages, BotMessage(dom.msg.base))

\* C24 as stated: after a click on any button of the set, the buttons of the
\* set are disabled.
C24_AnyClickDisables == dom.click \in ButtonKinds => dom.btnDisabled

\* C24 amended: a click on a payload or question button disables the
\* buttons of its container and makes one sendMessage call; a click on a url
\* button or on a button without action makes none and leaves the buttons as
\* they are; a disabled set stays disabled, and no more than one sendMessage
\* call ever comes from one container.
C24_SubmitDisables ==
    /\ [](dom.click \in {"payload", "question"} => dom.btnDisabled)
    /\ [](dom.btnSent <= 1)
    /\ [][/\ dom'.click \in {"payload", "question"}
              => /\ Len(calls') = Len(calls) + 1
                 /\ dom'.btnSent = dom.btnSent + 1
          /\ dom'.click \in {"url", "plain"}
              => /\ UNCHANGED <<calls, messages, lsConversation>>
                 /\ dom'.btnDisabled = dom.btnDisabled
                 /\ dom'.btnSent = dom.btnSent
          /\ dom.btnDisabled => (dom'.btnDisabled /\ dom'.btnSent = dom.btnSent)]_vars

\* A button of the set has submitted, the set is disabled, and the user has
\* gone on to click a star of the same message.
C24_Witness ==
    /\ dom.btnDisabled
    /\ dom.btnSent = 1
    /\ dom.click = "star"

\* C25: a click on the star of value i makes one sendMessage call, with the
\* text "Rated i stars" and the payload /rate_service{"rating":i}, and leaves
\* exactly the stars of values 1..i selected; every star of the scale can be
\* clicked.
C25_StarClick ==
    /\ [][dom'.click = "star" =>
             LET i == dom'.at
                 c == calls'[Len(calls')]
             IN  /\ i \in 1..MaxScale
                 /\ Len(calls') = Len(calls) + 1
                 /\ c.pc = "fetch"
                 /\ c.body.message = <<"Rated ", Digit(i), " stars">>
                 /\ c.body.customData = <<"/rate_service{\"rating\":", Digit(i), "}">>
                 /\ dom'.selected = 1..i
                 /\ dom'.selectedRating = i]_vars
    /\ []((Has(dom.custom, "rating") /\ nCalls < MaxClickCalls) =>
             \A i \in 1..MaxScale : ENABLED (ClickStar(i) /\ UNCHANGED cfgVars))

\* Two clicks on the stars of a message that carries a rating only, the
\* second one on the lowest star.
C25_Witness ==
    /\ dom.custom = <<"rating">>
    /\ dom.tree = <<"text", "custom">>
    /\ nCalls = MaxClickCalls
    /\ dom.click = "star"
    /\ dom.at = 1
    /\ dom.selected = {1}

\* C26: a submit of the form makes one sendMessage call, whose text lists
\* the "field: value" pairs joined by ", " and whose payload is the
\* submit_payload followed by the JSON of the values; the controls are
\* disabled then, and a disabled form submits nothing.
C26_FormSubmit ==
    /\ [][dom'.click = "submit" =>
             LET v == dom'.formValues
                 c == calls'[Len(calls')]
                 text == <<"Submitted form: ", "email", ": ", v["email"], ", ",
                           "plan", ": ", v["plan"]>>
             IN  /\ Len(calls') = Len(calls) + 1
                 /\ c.pc = "fetch"
                 /\ c.body.message = text
                 /\ c.body.customData =
                        <<"/submit_form", "{", "\"", "email", "\":\"", v["email"], "\"", ",",
                          "\"", "plan", "\":\"", v["plan"], "\"", "}">>
                 /\ messages' = Append(messages, UserMessage(text))
                 /\ dom'.formDisabled
                 /\ dom'.formSent = dom.formSent + 1]_vars
    /\ [](dom.formSent <= 1)
    /\ [](dom.formDisabled =>
             ~ENABLED (\E v \in [FieldNames -> FieldValues] :
                          SubmitForm(v) /\ UNCHANGED cfgVars))

\* The form was submitted with both fields filled.
C26_Witness ==
    /\ dom.click = "submit"
    /\ dom.formDisabled
    /\ dom.formValues = [n \in FieldNames |-> "x"]
    /\ lastOp.op = "sendMessage"

\* C27: a form that was submitted had a value in every field flagged required.
C27_RequiredBlocks ==
    dom.click = "submit" =>
        \A i \in 1..Len(FormFields) :
            FormFields[i].required => dom.formValues[FormFields[i].field_name] # ""

====
